---- MODULE Spec2Model ----
(***************************************************************************)
(* A model of selenium_pages: the Element proxies of a Page               *)
(* (WebElementEx: construction, lazy resolution, all, count, structural    *)
(* self-test), the Condition wrapper, the wait entry points and the URL    *)
(* pattern helpers of page.py / condition.py.                              *)
(*                                                                         *)
(* The browser is the environment.  The driver's documented behaviour is   *)
(* taken as given: find_element returns the first match or raises          *)
(* NoSuchElementException, find_elements returns the (possibly empty)      *)
(* list of matches, any command on a handle whose node left the document   *)
(* raises StaleElementReferenceException, and WebDriverWait.until polls    *)
(* until a truthy value or until the clock has passed start + timeout.     *)
(***************************************************************************)
EXTENDS Integers, Sequences, FiniteSets, TLC

\* ---------------------------------------------------------------- bounds
\* Most nodes one locator matches in its scope.
MaxCount == 2

\* Longest explicit timeout of a wait, in seconds.
MaxTimeout == 1
\* Longest settle sleep after a wait (sleep_after), in seconds.
MaxSleepAfter == 1
\* Most steps of the caller's action inside a do_then_wait_for block.
MaxBody == 2

\* Longest body P of a class URL pattern ^P$ handed to extend_url.
MaxPattern == 2
\* Longest extension handed to extend_url.
MaxExtension == 2

\* ------------------------------------------------------------- constants
\* timeout=5: the default of every wait entry point, in seconds.
DefaultTimeout == 5
\* WebDriverWait's poll interval is 0.5 s: the clock counts half seconds.
TicksPerSecond == 2

None == "None"
Driver == "driver"
PageName == "page"

NoSuchElementException == "NoSuchElementException"
TimeoutException == "TimeoutException"
StaleElementReferenceException == "StaleElementReferenceException"
AssertionError == "AssertionError"
IndexError == "IndexError"
\* Whatever the caller's action inside a with block raises.
ActionError == "ActionError"

\* driver.name: the browser's name, what a top-level proxy's _scope.name is.
BrowserName == "firefox"

\* ------------------------------------------------- the declared Locators
\* The proxy tree of the page: the spec's header/dropdown scenario with the
\* sample page's excluded child and a second top-level element.
Proxies == {"header", "dropdown", "fake", "main_search_bar"}

\* Page.keys: the top-level names, in declaration order.
PageKeys == <<"header", "main_search_bar">>

\* WebElementEx.keys: the names of a proxy's children, in declaration order.
Keys(p) == IF p = "header" THEN <<"dropdown", "fake">> ELSE <<>>

\* WebElementEx._scope: the parent proxy, or the driver for a top-level proxy.
Scope(p) == IF p \in {"dropdown", "fake"} THEN "header" ELSE Driver

\* WebElementEx.locator: (by, value).
LocatorOf(p) ==
    CASE p = "header" -> <<"tag name", "header">>
      [] p = "dropdown" -> <<"link text", "Technologies">>
      [] p = "fake" -> <<"id", "fake">>
      [] OTHER -> <<"id", "home-q">>

\* Locator(by, value, n, exclude, test_func): the structural-test metadata.
Loc(n, exclude, test_func) ==
    [number |-> n, exclude |-> exclude, test_func |-> test_func]

\* The declarations a run may start from.
Declarations ==
    { [p \in Proxies |->
         CASE p = "fake" -> Loc(1, TRUE, None)
           [] OTHER -> Loc(1, FALSE, None)],
      [p \in Proxies |->
         CASE p = "header" -> Loc(1, TRUE, "open_menu")
           [] p = "fake" -> Loc(2, FALSE, None)
           [] OTHER -> Loc(1, FALSE, None)],
      [p \in Proxies |->
         CASE p = "header" -> Loc(2, FALSE, None)
           [] p = "dropdown" -> Loc(2, FALSE, "open_menu")
           [] OTHER -> Loc(1, FALSE, None)] }

Descendants(p) == {q \in Proxies : Scope(q) = p}

VARIABLES
    locators,     \* the page's declaration: proxy name -> Locator
    cnt,          \* document: per locator, how many nodes match in its scope
    web_element,  \* WebElementEx._web_element of each proxy (NoHandle = None)
    last,         \* what the latest call on the page object did
    pageUrl,      \* Page.url: the page's declared URL pattern
    url,          \* driver.current_url
    flag,         \* what the caller's plain check function sees in the page
    requested,    \* the argument of the latest driver.get
    call,         \* the wait entry point that is running, with its arguments
    status,       \* "idle", "running", "returned" or the exception raised
    todo,         \* the steps of the running entry point still to do
    phase,        \* inside WebDriverWait.until: "start", "eval" or "sleep"
    bodyLeft,     \* steps of the with-block's body still to run
    bodyDone,     \* the with-block's body has finished
    now,          \* the clock, in poll intervals
    waitStart,    \* the clock when WebDriverWait.until began
    polls,        \* the evaluations of the condition made by this call
    raised,       \* the exception the block's body raised, on its way out
    settled,      \* the settle sleep of this call: made, and after how many
                  \* evaluations
    ext           \* the latest Page.extend_url: class url, extension, result

pvars == <<locators, cnt, web_element, last>>
wvars == <<pageUrl, url, flag, requested, call, status, todo, phase, bodyLeft,
           bodyDone, now, waitStart, polls, raised, settled>>
vars == <<pvars, wvars, ext>>

\* ------------------------------------------------------------- documents
\* A handle (selenium WebElement) names one node: the idx-th match of its
\* locator when it was found.  stale: the node has left the document since,
\* so the browser refuses every command on the handle.
NoHandle == [idx |-> 0, stale |-> FALSE]
NodeAt(l, i) == [idx |-> i, stale |-> FALSE]

\* The handle's node is in the document now.
Live(l, h) == h.idx >= 1 /\ ~h.stale

NoMsg == [src |-> None, name |-> None, page |-> None, locator |-> <<>>]
\* The driver's own message: "Unable to locate element: {method, selector}".
DriverMsg(p) ==
    [src |-> "driver", name |-> None, page |-> None, locator |-> LocatorOf(p)]
\* page.py:298: 'Unable to locate {name} on {page} using locator {locator}'.
ProxyMsg(p) ==
    [src |-> "proxy", name |-> p, page |-> PageName, locator |-> LocatorOf(p)]

\* page.py:308: 'Unable to locate {name} in {scope name} using locator
\* {locator}'; page holds the name of the scope (the parent proxy's name,
\* or the driver's).
AllMsg(p) ==
    [src |-> "proxy", name |-> p,
     page |-> IF Scope(p) = Driver THEN BrowserName ELSE Scope(p),
     locator |-> LocatorOf(p)]

\* A call's outcome: kind is "ok" or the exception that left the call.
Res(kind, handle, value, msg, cache) ==
    [kind |-> kind, handle |-> handle, value |-> value, msg |-> msg,
     cache |-> cache]

\* driver.find_element / WebElement.find_element from a live scope.
DriverFindElement(p, cache) ==
    IF cnt[p] >= 1
    THEN Res("ok", NodeAt(p, 1), 0, NoMsg, cache)
    ELSE Res(NoSuchElementException, NoHandle, 0, DriverMsg(p), cache)

\* driver.find_elements / WebElement.find_elements from a live scope.
DriverFindElements(p, cache) == Res("ok", NoHandle, cnt[p], NoMsg, cache)

\* Mutant of Remember: the handle is kept for the scope, so the proxies of
\* one scope share it.
RememberInScope(p, h, cache) ==
    [q \in DOMAIN cache |-> IF Scope(q) = Scope(p) THEN h ELSE cache[q]]

\* self._web_element = result (page.py:294): the proxy keeps the handle.
Remember(p, h, cache) == [cache EXCEPT ![p] = h]

RECURSIVE Element(_, _)
RECURSIVE ScopeAttr(_, _)

\* self._scope.<attr>: the driver's own attribute, or, on a parent proxy,
\* WebElementEx.__getattribute__, which resolves the parent (self.element)
\* and asks the handle, and a stale handle refuses every command.
ScopeAttr(p, cache) ==
    IF Scope(p) = Driver
    THEN Res("ok", NoHandle, 0, NoMsg, cache)
    ELSE LET OnHandle(s) ==
                 IF s.kind # "ok" THEN s
                 ELSE IF ~Live(Scope(p), s.handle)
                 THEN Res(StaleElementReferenceException, NoHandle, 0, NoMsg,
                          s.cache)
                 ELSE s
         IN  OnHandle(Element(Scope(p), cache))

\* WebElementEx.element.
Element(p, cache) ==
    IF cache[p] # NoHandle
    THEN \* try: return self._web_element -- returning the field raises nothing
         Res("ok", cache[p], 0, NoMsg, cache)
    ELSE LET Found(r) ==
                 IF r.kind = "ok"
                 THEN [r EXCEPT !.cache = Remember(p, r.handle, r.cache)]
                 ELSE IF r.kind = TimeoutException
                 THEN Res(NoSuchElementException, NoHandle, 0, ProxyMsg(p),
                          r.cache)
                 ELSE r
             Find(s) ==
                 Found(IF s.kind = "ok" THEN DriverFindElement(p, s.cache)
                       ELSE s)
         IN  Find(ScopeAttr(p, cache))

\* WebElementEx.count.
Count(p, cache) ==
    LET Find(s) == IF s.kind = "ok" THEN DriverFindElements(p, s.cache) ELSE s
    IN  Find(ScopeAttr(p, cache))

\* ------------------------------------------------------------ conditions
\* ec.presence_of_element_located(locator)(scope): scope.find_element.
PresenceOfElementLocated(p, cache) ==
    LET Find(s) == IF s.kind = "ok" THEN DriverFindElement(p, s.cache) ELSE s
    IN  Find(ScopeAttr(p, cache))

\* The accessors that hand out the presence, visibility and clickability
\* Conditions of a proxy.
Accessors == {"is_present", "is_visible", "is_clickable"}

\* Reading proxy.is_present / is_visible / is_clickable.  is_present and
\* is_clickable build their predicate from self.locator and ask nothing;
\* is_visible builds ec.visibility_of(self.element): the element is
\* resolved while the Condition is made.
Obtain(accessor, p, cache) ==
    IF accessor = "is_visible"
    THEN Element(p, cache)
    ELSE Res("ok", NoHandle, 0, NoMsg, cache)

\* Mutant of ConditionBool: __bool__ without its except clause.
ConditionBoolNoExcept(p, cache) ==
    LET Bool(r) ==
            IF r.kind = "ok" THEN Res("ok", NoHandle, 1, NoMsg, r.cache) ELSE r
    IN  Bool(PresenceOfElementLocated(p, cache))

\* Condition.__bool__ of WebElementEx.is_present: the predicate's value as a
\* boolean (value 1 / 0), NoSuchElementException read as false.
ConditionBool(p, cache) ==
    LET Bool(r) ==
            IF r.kind = "ok" THEN Res("ok", NoHandle, 1, NoMsg, r.cache)
            ELSE IF r.kind = NoSuchElementException
            THEN Res("ok", NoHandle, 0, NoMsg, r.cache)
            ELSE r
    IN  Bool(PresenceOfElementLocated(p, cache))

\* Mutant of UntilTimeout: the caller's timeout is replaced by 0, as in
\* WebElementEx.all.
UntilTimeoutZero(timeout) == 0

\* Condition.wait_for: WebDriverWait(self.scope, timeout), in poll intervals.
UntilTimeout(timeout) == timeout * TicksPerSecond

\* ---------------------------------------------------------- resolve all
\* The timeout WebElementEx.all waits for presence with (timeout=0).
AllTimeout == 0

\* The outcome of WebElementEx.all: the proxies returned, and how many times
\* the presence condition was evaluated.
AllRes(kind, evals, proxies, msg, cache) ==
    [kind |-> kind, evals |-> evals, proxies |-> proxies, msg |-> msg,
     cache |-> cache]

RECURSIVE UntilPresent(_, _, _, _)
\* wait_for(self.is_present, timeout): WebDriverWait(scope, timeout).until
\* on a document that stays as it is during the call.  t: poll intervals
\* since the wait began, window: the timeout in poll intervals.  Each turn
\* evaluates the condition; NoSuchElementException counts as false (it is
\* among WebDriverWait's ignored exceptions), another exception leaves
\* the wait; after a false evaluation the loop sleeps one interval and
\* raises TimeoutException once the clock has passed the window.
UntilPresent(p, cache, t, window) ==
    LET Turn(r) ==
            IF r.kind = "ok"
            THEN AllRes("ok", t + 1, <<>>, NoMsg, r.cache)
            ELSE IF r.kind # NoSuchElementException
            THEN AllRes(r.kind, t + 1, <<>>, r.msg, r.cache)
            ELSE IF t + 1 > window
            THEN AllRes(TimeoutException, t + 1, <<>>, NoMsg, r.cache)
            ELSE UntilPresent(p, r.cache, t + 1, window)
    IN  Turn(PresenceOfElementLocated(p, cache))

\* WebElementEx(self.name, self.page, self._scope, self._locator,
\*              web_element=web_element): the i-th proxy all returns.
Sibling(p, h) ==
    [name |-> p, scope |-> Scope(p), locator |-> LocatorOf(p),
     web_element |-> h]

\* WebElementEx.all.
All(p, cache) ==
    LET Listed(w, f) ==
            IF f.kind # "ok" THEN AllRes(f.kind, w.evals, <<>>, f.msg, f.cache)
            ELSE AllRes("ok", w.evals,
                        [i \in 1..f.value |-> Sibling(p, NodeAt(p, i))],
                        NoMsg, f.cache)
        Waited(w) ==
            IF w.kind = "ok" THEN Listed(w, Count(p, w.cache))
            ELSE IF w.kind = TimeoutException
            THEN AllRes(NoSuchElementException, w.evals, <<>>, AllMsg(p),
                        w.cache)
            ELSE w
    IN  Waited(UntilPresent(p, cache, 0, UntilTimeout(AllTimeout)))

\* WebElementEx.__getitem__: self.all[item].
GetItem(p, item, cache) ==
    LET Indexed(a) ==
            IF a.kind # "ok" THEN a
            ELSE IF item + 1 > Len(a.proxies)
            THEN [a EXCEPT !.kind = IndexError, !.proxies = <<>>]
            ELSE [a EXCEPT !.proxies = <<a.proxies[item + 1]>>]
    IN  Indexed(All(p, cache))

\* ------------------------------------------------------------- self-test
\* The state a self-test run carries: the caches, who was entered (test()
\* called), whose presence and count were asserted, the trace of the run
\* (setup hooks entered and left, presence/count checks made) as it went,
\* the NoSuchElementException raised on the way (notfound), and
\* the outcome: kind "pass", AssertionError with its message and the proxy
\* whose frame raised it, or an exception test() does not catch.
TestStart(cache) ==
    [cache |-> cache, kind |-> "pass", msg |-> NoMsg, failed |-> None,
     notfound |-> NoMsg, entered |-> <<>>, asserted |-> {}, trace |-> <<>>]

\* An exception leaves the assert statement of p's frame.
Raise(p, st, r) ==
    [st EXCEPT !.cache = r.cache, !.kind = r.kind, !.msg = r.msg, !.failed = p,
               !.notfound = IF r.kind = NoSuchElementException
                            THEN r.msg ELSE @]

\* Mutant of PresenceAndCount: the count is not compared.
PresenceOnly(p, st) ==
    LET s1 == [st EXCEPT !.asserted = @ \cup {p},
                         !.trace = Append(@, <<"check", p>>)]
        Present(e) ==
            IF e.kind # "ok" THEN Raise(p, s1, e)
            ELSE [s1 EXCEPT !.cache = e.cache]
    IN  Present(Element(p, st.cache))

\* bool(self.element) and self.count == self._locator.number
PresenceAndCount(p, st) ==
    LET s1 == [st EXCEPT !.asserted = @ \cup {p},
                         !.trace = Append(@, <<"check", p>>)]
        Compare(c) ==
            IF c.kind # "ok" THEN Raise(p, s1, c)
            ELSE IF c.value # locators[p].number
            THEN Raise(p, s1,
                       Res(AssertionError, NoHandle, 0, NoMsg, c.cache))
            ELSE [s1 EXCEPT !.cache = c.cache]
        Present(e) ==
            IF e.kind # "ok" THEN Raise(p, s1, e)
            ELSE Compare(Count(p, e.cache))
    IN  Present(Element(p, st.cache))

\* Mutant of OwnAssert: exclude is not consulted.
OwnAssertOfExcluded(p, st) == PresenceAndCount(p, st)

\* assert self._locator.exclude or (bool(self.element) and
\*                                  self.count == self._locator.number)
OwnAssert(p, st) ==
    IF locators[p].exclude THEN st ELSE PresenceAndCount(p, st)

\* Mutant of TestExcept: no except clause.
TestExceptNothing(p, st) == st

\* except NoSuchElementException as e: assert False, e.msg
TestExcept(p, st) ==
    IF st.kind = NoSuchElementException
    THEN [st EXCEPT !.kind = AssertionError, !.failed = p]
    ELSE st

\* WebElementEx._setup_test_context: the page's hook entered / left.
HookEnter(p, st) ==
    IF locators[p].test_func # None
    THEN [st EXCEPT !.trace = Append(@, <<"enter", p>>)]
    ELSE st

\* Mutant of HookExit: the hook is left only when the block passed.
HookExitOnPass(p, st) ==
    IF locators[p].test_func # None /\ st.kind = "pass"
    THEN [st EXCEPT !.trace = Append(@, <<"exit", p>>)]
    ELSE st

HookExit(p, st) ==
    IF locators[p].test_func # None
    THEN [st EXCEPT !.trace = Append(@, <<"exit", p>>)]
    ELSE st

RECURSIVE Test(_, _)
RECURSIVE TestKeys(_, _, _)

RECURSIVE TestKeysAll(_, _, _)
\* Mutant of TestKeys: the loop goes on to the next key after a failure.
TestKeysAll(keys, i, st) ==
    IF i > Len(keys) THEN st
    ELSE LET Rest(r) == TestKeysAll(keys, i + 1, r)
         IN  Rest(Test(keys[i], st))

\* for key in self.keys: getattr(self, key).test() -- an exception ends it.
TestKeys(keys, i, st) ==
    IF i > Len(keys) THEN st
    ELSE LET Rest(r) ==
                 IF r.kind = "pass" THEN TestKeys(keys, i + 1, r) ELSE r
         IN  Rest(Test(keys[i], st))

\* WebElementEx.test.
Test(p, st) ==
    LET Children(own) ==
            IF own.kind = "pass" THEN TestKeys(Keys(p), 1, own) ELSE own
        Body(s0) == Children(OwnAssert(p, s0))
    IN  TestExcept(p, HookExit(p,
            Body(HookEnter(p, [st EXCEPT !.entered = Append(@, p)]))))

\* Page.test_elements.
TestElements(cache) == TestKeys(PageKeys, 1, TestStart(cache))

\* ---------------------------------------------------------- construction
\* Mutant of NewWebElementEx: the child proxies are left to be built later.
NewWebElementExLazy(name, scope) ==
    {[name |-> name, scope |-> scope, web_element |-> NoHandle]}

RECURSIVE NewWebElementEx(_, _)
\* WebElementEx.__init__(name, page, scope, locator): the proxy, with
\* web_element=None, and at once a proxy for every key of its locator's
\* elements, scoped to it.
NewWebElementEx(name, scope) ==
    {[name |-> name, scope |-> scope, web_element |-> NoHandle]}
    \cup UNION {NewWebElementEx(Keys(name)[i], name) :
                   i \in 1..Len(Keys(name))}

\* Page.__init__: a proxy for every key of _elements, scoped to the driver.
NewPage ==
    UNION {NewWebElementEx(PageKeys[i], Driver) : i \in 1..Len(PageKeys)}

\* --------------------------------------------------------------- actions
Idle ==
    [op |-> "none", proxy |-> None, kind |-> "ok", handle |-> NoHandle,
     value |-> 0, msg |-> NoMsg, pre |-> NoHandle, failed |-> None,
     notfound |-> NoMsg, entered |-> <<>>, asserted |-> {}, trace |-> <<>>,
     evals |-> 0, proxies |-> <<>>, item |-> 0]

\* ----------------------------------------------------------------- URLs
\* Strings are sequences of characters.  The URLs the browser may be at and
\* the URL patterns a page may declare (anchored regular expressions, with
\* the dot escaped as in "^https://example\.com/$" or bare as in the sample
\* page's "^https://developer.mozilla.org/en-US/$").
UrlHome == <<"h", ".", "c", "/">>
UrlOther == <<"h", ".", "c", "/", "o">>
UrlLookalike == <<"h", "x", "c", "/">>
UrlBlank == <<"b">>
Urls == {UrlHome, UrlOther, UrlLookalike, UrlBlank}

PatternEscaped == <<"^", "h", "\\", ".", "c", "/", "$">>
PatternBare == <<"^", "h", ".", "c", "/", "$">>
Patterns == {PatternEscaped, PatternBare}

RECURSIVE MatchHere(_, _)
\* re.match of an expression of literals, escapes, dots and a final "$".
MatchHere(re, str) ==
    IF re = <<>> THEN TRUE
    ELSE IF re = <<"$">> THEN str = <<>>
    ELSE IF re[1] = "\\" /\ Len(re) >= 2
    THEN /\ str # <<>>
         /\ str[1] = re[2]
         /\ MatchHere(SubSeq(re, 3, Len(re)), Tail(str))
    ELSE /\ str # <<>>
         /\ re[1] = "." \/ str[1] = re[1]
         /\ MatchHere(Tail(re), Tail(str))

\* ec.url_matches(pattern): re.search(pattern, driver.current_url).
UrlMatches(pattern, u) ==
    IF pattern # <<>> /\ pattern[1] = "^"
    THEN MatchHere(Tail(pattern), u)
    ELSE \E k \in 1..(Len(u) + 1) : MatchHere(pattern, SubSeq(u, k, Len(u)))

RECURSIVE Unescape(_)
\* url.replace(r"\.", '.')
Unescape(str) ==
    IF str = <<>> THEN <<>>
    ELSE IF Len(str) >= 2 /\ str[1] = "\\" /\ str[2] = "."
    THEN <<".">> \o Unescape(SubSeq(str, 3, Len(str)))
    ELSE <<str[1]>> \o Unescape(Tail(str))

\* Page.navigate_to_page: the pattern without its anchors, dots unescaped.
NavigateTarget(pattern) ==
    LET a == IF pattern[1] = "^" THEN Tail(pattern) ELSE pattern
        b == IF a[Len(a)] = "$" THEN SubSeq(a, 1, Len(a) - 1) ELSE a
    IN  Unescape(b)

RECURSIVE Replace(_, _, _)
\* str.replace(old, new) for a one-character old: every occurrence.
Replace(str, old, new) ==
    IF str = <<>> THEN <<>>
    ELSE (IF str[1] = old THEN new ELSE <<str[1]>>)
         \o Replace(Tail(str), old, new)

\* Page.extend_url: cls.url.replace('$', extension + '$').
ExtendUrl(clsUrl, extension) == Replace(clsUrl, "$", extension \o <<"$">>)

\* The strings of at most n characters of S.
StringsUpTo(S, n) == UNION {[1..k -> S] : k \in 0..n}

\* The class URL patterns ^P$ and the extensions extend_url is called with.
ClassUrls ==
    {<<"^">> \o P \o <<"$">> : P \in StringsUpTo({"/", "a", "\\", "$"}, MaxPattern)}
Extensions == StringsUpTo({"/", "b"}, MaxExtension)

\* ---------------------------------------------------------------- waits
\* A Condition: Page.url_matches(pattern), or a plain check function that
\* Page.wait_for wraps (Condition(lambda d: condition_input(), driver)).
CondUrlMatches(pattern) == [kind |-> "url_matches", pattern |-> pattern]
CondCheck == [kind |-> "check", pattern |-> <<>>]

\* The condition's predicate on the page as it is now.
Evaluate(cond) ==
    IF cond.kind = "url_matches" THEN UrlMatches(cond.pattern, url) ELSE flag

NoCall == [kind |-> "none", cond |-> CondCheck, timeout |-> 0, sleep_after |-> 0]
NoPolls ==
    [n |-> 0, early |-> 0, anyTrue |-> FALSE, value |-> FALSE, url |-> <<>>]
NoSettle == [done |-> FALSE, after |-> 0]
NoExtend == [url |-> <<>>, extension |-> <<>>, result |-> <<>>]

\* Mutant of DoThenWaitFor: the wait is made before the block is run.
WaitForThenDo == <<"wait_for", "yield">>

\* do_then_wait_for (page.py:238-239): yield, then wait_for(condition).
DoThenWaitFor == <<"yield", "wait_for">>

\* Page.do_then_wait_for: the module's do_then_wait_for, then sleep.
PageDoThenWaitFor == DoThenWaitFor \o <<"sleep">>

\* Mutant of PageWaitFor: the settle sleep is made before the wait.
PageSleepThenWaitFor == <<"sleep", "wait_for">>

\* Page.wait_for: wait_for(condition), then sleep.
PageWaitFor == <<"wait_for", "sleep">>

\* Mutant of PageGet: navigation without the wait.
PageGetNoWait == <<"yield">>

\* Page.get: navigate_to_page inside do_then_wait_for(url_matches(url)).
PageGet == PageDoThenWaitFor

\* Mutant of OnBodyError: the context manager goes on after its yield
\* although the block raised (try: yield / finally: the rest).
OnBodyErrorGoOn(script) == Tail(script)

\* An exception of the block is thrown into the context manager at its
\* yield, which stands in no try statement: none of the steps after the
\* yield is run (page.py:238-239, 122-124).
OnBodyError(script) == <<>>

Script(kind) ==
    CASE kind = "do_then_wait_for" -> DoThenWaitFor
      [] kind = "page.do_then_wait_for" -> PageDoThenWaitFor
      [] kind = "page.wait_for" -> PageWaitFor
      [] OTHER -> PageGet

Timeouts == 0..MaxTimeout \cup {DefaultTimeout}

\* The entry points that are context managers around the caller's block.
HasBody(kind) == kind # "page.wait_for"

WaitIdle ==
    /\ requested = <<>>
    /\ call = NoCall
    /\ status = "idle"
    /\ todo = <<>>
    /\ phase = "start"
    /\ bodyLeft = 0
    /\ bodyDone = FALSE
    /\ now = 0
    /\ waitStart = 0
    /\ polls = NoPolls
    /\ raised = None
    /\ settled = NoSettle
    /\ ext = NoExtend

\* Page.__init__ / WebElementEx.__init__: one proxy per declared Locator,
\* nothing resolved; the document is the loaded page, which may or may not
\* hold what the declaration expects.
Init ==
    /\ pageUrl = PatternEscaped
    /\ url = UrlHome
    /\ flag = FALSE
    /\ WaitIdle
    /\ locators \in Declarations
    /\ cnt \in {c \in [Proxies -> 0..MaxCount] :
                  \A p \in Proxies :
                     (Scope(p) # Driver /\ c[Scope(p)] = 0) => c[p] = 0}
    /\ web_element = [p \in {x.name : x \in NewPage} |->
                         (CHOOSE x \in NewPage : x.name = p).web_element]
    /\ last = Idle

\* The test code reads proxy.element.
CallElement(p) ==
    LET Outcome(r) ==
            /\ web_element' = r.cache
            /\ last' = [Idle EXCEPT !.op = "element", !.proxy = p,
                                    !.kind = r.kind, !.handle = r.handle,
                                    !.msg = r.msg, !.pre = web_element[p]]
    IN  /\ last = Idle
        /\ Outcome(Element(p, web_element))
        /\ UNCHANGED <<locators, cnt, wvars, ext>>

\* The test code reads proxy.count.
CallCount(p) ==
    LET Outcome(r) ==
            /\ web_element' = r.cache
            /\ last' = [Idle EXCEPT !.op = "count", !.proxy = p,
                                    !.kind = r.kind, !.value = r.value,
                                    !.msg = r.msg, !.pre = web_element[p]]
    IN  /\ last = Idle
        /\ Outcome(Count(p, web_element))
        /\ UNCHANGED <<locators, cnt, wvars, ext>>

\* The test code evaluates bool(proxy.is_present).
CallBool(p) ==
    LET Outcome(r) ==
            /\ web_element' = r.cache
            /\ last' = [Idle EXCEPT !.op = "bool", !.proxy = p,
                                    !.kind = r.kind, !.value = r.value,
                                    !.msg = r.msg, !.pre = web_element[p]]
    IN  /\ last = Idle
        /\ Outcome(ConditionBool(p, web_element))
        /\ UNCHANGED <<locators, cnt, wvars, ext>>

TestOutcome(op, p, r) ==
    [Idle EXCEPT !.op = op, !.proxy = p, !.kind = r.kind, !.msg = r.msg,
                 !.pre = web_element[p], !.failed = r.failed,
                 !.notfound = r.notfound, !.entered = r.entered,
                 !.asserted = r.asserted, !.trace = r.trace]

\* The test code calls proxy.test().
CallTest(p) ==
    LET Outcome(r) ==
            /\ web_element' = r.cache
            /\ last' = TestOutcome("test", p, r)
    IN  /\ last = Idle
        /\ Outcome(Test(p, TestStart(web_element)))
        /\ UNCHANGED <<locators, cnt, wvars, ext>>

\* The test code calls page.test_elements().
CallTestElements ==
    LET Outcome(r) ==
            /\ web_element' = r.cache
            /\ last' = [TestOutcome("test_elements", PageKeys[1], r)
                          EXCEPT !.proxy = None, !.pre = NoHandle]
    IN  /\ last = Idle
        /\ Outcome(TestElements(web_element))
        /\ UNCHANGED <<locators, cnt, wvars, ext>>

\* The test code reads proxy.is_present, proxy.is_visible or
\* proxy.is_clickable, to hand the Condition to a wait.
CallObtain(accessor, p) ==
    LET Outcome(r) ==
            /\ web_element' = r.cache
            /\ last' = [Idle EXCEPT !.op = accessor, !.proxy = p,
                                    !.kind = r.kind, !.handle = r.handle,
                                    !.msg = r.msg, !.pre = web_element[p]]
    IN  /\ last = Idle
        /\ Outcome(Obtain(accessor, p, web_element))
        /\ UNCHANGED <<locators, cnt, wvars, ext>>

\* The test code reads proxy.all.
CallAll(p) ==
    LET Outcome(r) ==
            /\ web_element' = r.cache
            /\ last' = [Idle EXCEPT !.op = "all", !.proxy = p,
                                    !.kind = r.kind, !.msg = r.msg,
                                    !.evals = r.evals, !.proxies = r.proxies,
                                    !.pre = web_element[p]]
    IN  /\ last = Idle
        /\ Outcome(All(p, web_element))
        /\ UNCHANGED <<locators, cnt, wvars, ext>>

\* The test code reads proxy[item].
CallGetItem(p, item) ==
    LET Outcome(r) ==
            /\ web_element' = r.cache
            /\ last' = [Idle EXCEPT !.op = "getitem", !.proxy = p,
                                    !.kind = r.kind, !.msg = r.msg,
                                    !.evals = r.evals, !.proxies = r.proxies,
                                    !.item = item, !.pre = web_element[p]]
    IN  /\ last = Idle
        /\ Outcome(GetItem(p, item, web_element))
        /\ UNCHANGED <<locators, cnt, wvars, ext>>

\* The test code has taken the outcome of its call and goes on to its next
\* statement.
Proceed ==
    /\ last # Idle
    /\ last' = Idle
    /\ UNCHANGED <<locators, cnt, web_element, wvars, ext>>

\* The document changes between two calls of the test code (a call is taken
\* as one step).
\* What a document change leaves of a handle onto a node of q: stale once
\* its node is gone.
Detach(h, gone) == IF h # NoHandle /\ gone THEN [h EXCEPT !.stale = TRUE] ELSE h

\* The application re-renders the first node of l: a new node (and new nodes
\* below it) takes its place, handles onto the old ones go stale.
DocReplace(l) ==
    /\ last = Idle
    /\ cnt[l] >= 1
    /\ web_element' = [q \in Proxies |->
           Detach(web_element[q],
                  (q = l \/ q \in Descendants(l)) /\ web_element[q].idx = 1)]
    /\ last' = Idle
    /\ UNCHANGED <<locators, cnt, wvars, ext>>

\* The application adds or removes matches of l in its scope: the last
\* matches leave first, and with the first one its subtree leaves.
DocSetCount(l, k) ==
    /\ last = Idle
    /\ k # cnt[l]
    /\ Scope(l) # Driver => cnt[Scope(l)] >= 1
    /\ cnt' = [q \in Proxies |->
                 IF q = l THEN k
                 ELSE IF k = 0 /\ q \in Descendants(l) THEN 0 ELSE cnt[q]]
    /\ web_element' = [q \in Proxies |->
           Detach(web_element[q],
                  \/ q = l /\ web_element[q].idx > k
                  \/ q \in Descendants(l) /\ k = 0)]
    /\ last' = Idle
    /\ UNCHANGED <<locators, wvars, ext>>

Next ==
    \/ \E p \in Proxies : CallElement(p)
    \/ \E p \in Proxies : CallCount(p)
    \/ \E p \in Proxies : CallBool(p)
    \/ \E p \in Proxies : CallTest(p)
    \/ CallTestElements
    \/ \E accessor \in Accessors, p \in Proxies : CallObtain(accessor, p)
    \/ \E p \in Proxies : CallAll(p)
    \/ \E p \in Proxies, item \in 0..(MaxCount - 1) : CallGetItem(p, item)
    \/ Proceed
    \/ \E l \in Proxies : DocReplace(l)
    \/ \E l \in Proxies, k \in 0..MaxCount : DocSetCount(l, k)

Spec == Init /\ [][Next]_vars

\* ----------------------------------------------------------- wait actions
\* A page object on a browser that is anywhere, no call made yet.
WaitInit ==
    /\ pageUrl \in Patterns
    /\ url \in Urls
    /\ flag \in BOOLEAN
    /\ WaitIdle
    /\ locators = CHOOSE d \in Declarations : ~d["header"].exclude
                                              /\ d["header"].number = 1
    /\ cnt = [p \in Proxies |-> 0]
    /\ web_element = [p \in Proxies |-> NoHandle]
    /\ last = Idle

Begin(c) ==
    /\ status = "idle"
    /\ call' = c
    /\ status' = "running"
    /\ todo' = Script(c.kind)
    /\ UNCHANGED <<pageUrl, url, flag, requested, phase, bodyDone, now,
                   waitStart, polls, raised, pvars, settled, ext>>

\* The test code calls page.get().
CallGet ==
    /\ Begin([kind |-> "page.get", cond |-> CondUrlMatches(pageUrl),
              timeout |-> DefaultTimeout, sleep_after |-> 0])
    /\ bodyLeft' = 1

\* The test code enters "with do_then_wait_for(cond, timeout):" or
\* "with page.do_then_wait_for(cond, timeout, sleep_after):".
CallDoThenWaitFor(kind, cond, timeout, sleep_after, steps) ==
    /\ kind = "do_then_wait_for" => sleep_after = 0
    /\ Begin([kind |-> kind, cond |-> cond, timeout |-> timeout,
              sleep_after |-> sleep_after])
    /\ bodyLeft' = steps

\* The test code calls page.wait_for(cond, timeout, sleep_after).
CallWaitFor(cond, timeout, sleep_after) ==
    /\ Begin([kind |-> "page.wait_for", cond |-> cond, timeout |-> timeout,
              sleep_after |-> sleep_after])
    /\ bodyLeft' = 0

\* One step of the block's body.  In page.get it is navigate_to_page:
\* driver.get(target) returns with the browser at the target or wherever it
\* was redirected.  Otherwise it is the caller's action (a click, typing),
\* which may move the browser or change what the check sees.
BodyStep ==
    /\ status = "running" /\ todo # <<>> /\ Head(todo) = "yield"
    /\ bodyLeft > 0
    /\ bodyLeft' = bodyLeft - 1
    /\ IF call.kind = "page.get"
       THEN /\ requested' = NavigateTarget(pageUrl)
            /\ url' \in Urls \cup {NavigateTarget(pageUrl)}
            /\ flag' = flag
       ELSE /\ requested' = requested
            /\ url' \in Urls
            /\ flag' \in BOOLEAN
    /\ UNCHANGED <<pageUrl, call, status, todo, phase, bodyDone, now,
                   waitStart, polls, raised, pvars, settled, ext>>

\* A step of the body raises: the with block is left by the exception,
\* which is thrown into the context manager at its yield.
BodyRaise ==
    /\ status = "running" /\ todo # <<>> /\ Head(todo) = "yield"
    /\ bodyLeft > 0
    /\ raised' = ActionError
    /\ todo' = OnBodyError(todo)
    /\ UNCHANGED <<pageUrl, url, flag, requested, call, status, phase,
                   bodyLeft, bodyDone, now, waitStart, polls, pvars, settled,
                   ext>>

\* The body has run to its end: the with block is left and the context
\* manager goes on after its yield.
BodyEnd ==
    /\ status = "running" /\ todo # <<>> /\ Head(todo) = "yield"
    /\ bodyLeft = 0
    /\ bodyDone' = TRUE
    /\ todo' = Tail(todo)
    /\ UNCHANGED <<pageUrl, url, flag, requested, call, status, phase,
                   bodyLeft, now, waitStart, polls, raised, pvars, settled, ext>>

InWait == status = "running" /\ todo # <<>> /\ Head(todo) = "wait_for"

\* WebDriverWait.until starts: end_time = now + timeout.
UntilBegin ==
    /\ InWait /\ phase = "start"
    /\ waitStart' = now
    /\ phase' = "eval"
    /\ UNCHANGED <<pageUrl, url, flag, requested, call, status, todo,
                   bodyLeft, bodyDone, now, polls, raised, pvars, settled, ext>>

\* until: value = method(driver); a truthy value is returned.
Poll ==
    /\ InWait /\ phase = "eval"
    /\ LET v == Evaluate(call.cond) IN
       /\ polls' = [n |-> polls.n + 1,
                    early |-> IF HasBody(call.kind) /\ ~bodyDone
                              THEN polls.early + 1 ELSE polls.early,
                    anyTrue |-> polls.anyTrue \/ v,
                    value |-> v, url |-> url]
       /\ IF v THEN todo' = Tail(todo) /\ phase' = "start"
               ELSE todo' = todo /\ phase' = "sleep"
    /\ UNCHANGED <<pageUrl, url, flag, requested, call, status, bodyLeft,
                   bodyDone, now, waitStart, raised, pvars, settled, ext>>

\* Mutant of PollSleep: the sleep returns with the clock where it was.
PollSleepStuck(d) ==
    /\ InWait /\ phase = "sleep"
    /\ phase' = "eval"
    /\ UNCHANGED <<pageUrl, url, flag, requested, call, status, todo,
                   bodyLeft, bodyDone, now, waitStart, polls, raised, pvars, settled,
                   ext>>

\* until: time.sleep(poll), which may overrun by d, and then
\* "if time.monotonic() > end_time: break", which raises TimeoutException.
PollSleep(d) ==
    /\ InWait /\ phase = "sleep"
    /\ now' = now + 1 + d
    /\ IF now' > waitStart + UntilTimeout(call.timeout)
       THEN status' = TimeoutException /\ todo' = <<>> /\ phase' = "start"
       ELSE status' = status /\ todo' = todo /\ phase' = "eval"
    /\ UNCHANGED <<pageUrl, url, flag, requested, call, bodyLeft, bodyDone,
                   waitStart, polls, raised, pvars, settled, ext>>

\* sleep(sleep_after).
Settle ==
    /\ status = "running" /\ todo # <<>> /\ Head(todo) = "sleep"
    /\ now' = now + call.sleep_after * TicksPerSecond
    /\ settled' = [done |-> TRUE, after |-> polls.n]
    /\ todo' = Tail(todo)
    /\ UNCHANGED <<pageUrl, url, flag, requested, call, status, phase,
                   bodyLeft, bodyDone, waitStart, polls, raised, pvars, ext>>

\* The entry point returns to the test code, or the exception of the
\* block leaves it (contextmanager.__exit__ lets it through).
Return ==
    /\ status = "running" /\ todo = <<>>
    /\ status' = IF raised # None THEN raised ELSE "returned"
    /\ UNCHANGED <<pageUrl, url, flag, requested, call, todo, phase,
                   bodyLeft, bodyDone, now, waitStart, polls, raised, pvars, settled, ext>>

\* The page changes under the test while a call runs: a script or a late
\* redirect moves the browser, or changes what the check sees.
PageChanges ==
    /\ status = "running"
    /\ \/ url' \in Urls \ {url} /\ flag' = flag
       \/ url' = url /\ flag' = ~flag
    /\ UNCHANGED <<pageUrl, requested, call, status, todo, phase, bodyLeft,
                   bodyDone, now, waitStart, polls, raised, pvars, settled, ext>>

WaitNext ==
    \/ CallGet
    \/ \E kind \in {"do_then_wait_for", "page.do_then_wait_for"},
          cond \in {CondCheck, CondUrlMatches(pageUrl)},
          timeout \in Timeouts, sleep_after \in 0..MaxSleepAfter,
          steps \in 1..MaxBody :
          CallDoThenWaitFor(kind, cond, timeout, sleep_after, steps)
    \/ \E cond \in {CondCheck, CondUrlMatches(pageUrl)},
          timeout \in Timeouts, sleep_after \in 0..MaxSleepAfter :
          CallWaitFor(cond, timeout, sleep_after)
    \/ BodyStep
    \/ BodyRaise
    \/ BodyEnd
    \/ UntilBegin
    \/ Poll
    \/ \E d \in 0..1 : PollSleep(d)
    \/ Settle
    \/ Return
    \/ PageChanges

WaitSpec == WaitInit /\ [][WaitNext]_vars

\* The calling thread runs on: inside WebDriverWait.until the next
\* evaluation is made and every time.sleep returns.
WaitLiveSpec ==
    /\ WaitSpec
    /\ WF_vars(UntilBegin)
    /\ WF_vars(Poll)
    /\ WF_vars(\E d \in 0..1 : PollSleep(d))

\* --------------------------------------------------------- URL patterns
\* A page class with some URL pattern, before any use of its objects.
UrlInit ==
    /\ pageUrl = PatternEscaped
    /\ url = UrlBlank
    /\ flag = FALSE
    /\ WaitIdle
    /\ locators = CHOOSE d \in Declarations : ~d["header"].exclude
                                              /\ d["header"].number = 1
    /\ cnt = [p \in Proxies |-> 0]
    /\ web_element = [p \in Proxies |-> NoHandle]
    /\ last = Idle

\* A sub-page is declared with url = Base.extend_url(extension).
CallExtendUrl(clsUrl, extension) ==
    /\ ext' = [url |-> clsUrl, extension |-> extension,
               result |-> ExtendUrl(clsUrl, extension)]
    /\ UNCHANGED <<pvars, wvars>>

UrlNext == \E clsUrl \in ClassUrls, extension \in Extensions :
              CallExtendUrl(clsUrl, extension)

UrlSpec == UrlInit /\ [][UrlNext]_vars

\* ---------------------------------------------------------------- claims
Range(seq) == {seq[i] : i \in 1..Len(seq)}
Subtree(p) == {p} \cup Descendants(p)
IsTestRun == last.op \in {"test", "test_elements"}

\* The nodes matching p's locator within p's scope (WebElementEx.scope: the
\* document, or the element the parent proxy holds): none within an element
\* that is not in the document.
LiveMatches(p) ==
    IF Scope(p) = Driver \/ Live(Scope(p), web_element[Scope(p)])
    THEN cnt[p] ELSE 0

\* C1: in every entry point built on do_then_wait_for (the module's context
\* manager, Page.do_then_wait_for, Page.get) no evaluation of the condition
\* is made before the block's body has finished.
C1_NoPollBeforeBodyDone == polls.early = 0

\* C1 witness: a do_then_wait_for evaluated its condition twice, both times
\* after its body had finished, and returned.
C1_Witness ==
    /\ call.kind = "do_then_wait_for" /\ status = "returned"
    /\ bodyDone /\ polls.n >= 2 /\ polls.early = 0

\* C6: a wait ends in TimeoutException only when the clock has passed the
\* start of the wait by more than the timeout it was called with, and only
\* if every evaluation made was false.
C6_TimeoutOnlyAfterWindow ==
    status = TimeoutException =>
        /\ now > waitStart + call.timeout * TicksPerSecond
        /\ polls.n >= 1
        /\ ~polls.anyTrue

\* C6 witness: a wait with a timeout of one second timed out after at least
\* two evaluations.
C6_Witness ==
    /\ status = TimeoutException /\ call.kind = "page.wait_for"
    /\ call.timeout = 1 /\ polls.n >= 2

\* C7: Page.get returns only after driver.get was issued with the page's
\* target and a later evaluation saw the browser at a URL matching the page's
\* pattern; it ends in TimeoutException only when no evaluation saw a match.
C7_GetReturnsOnlyOnMatch ==
    call.kind = "page.get" =>
        /\ status = "returned" =>
              /\ bodyDone /\ requested = NavigateTarget(pageUrl)
              /\ polls.n >= 1 /\ polls.early = 0
              /\ polls.value /\ UrlMatches(pageUrl, polls.url)
        /\ status = TimeoutException =>
              /\ ~polls.anyTrue /\ ~UrlMatches(pageUrl, polls.url)
              /\ now > waitStart + DefaultTimeout * TicksPerSecond
        /\ status \in {"returned", TimeoutException}
              => (status = "returned" <=> polls.anyTrue)

\* C7 witness: Page.get of a page declared "^h\.c/$" returned after a first
\* evaluation that saw another URL and a later one that saw "h.c/".
C7_Witness ==
    /\ call.kind = "page.get" /\ status = "returned"
    /\ pageUrl = PatternEscaped /\ polls.url = UrlHome /\ polls.n >= 2

\* C2 (as claimed): a resolve that starts from a stale cached handle while a
\* new matching node exists returns a live handle and caches it.
C2_StaleHandleIsReResolved ==
    (/\ last.op = "element"
     /\ last.pre # NoHandle /\ last.pre.stale
     /\ LiveMatches(last.proxy) >= 1)
    => (/\ last.kind = "ok"
        /\ Live(last.proxy, last.handle)
        /\ web_element[last.proxy] = last.handle)

C8_StaleAndGoneFailsNotFound ==
    (/\ last.op = "element"
     /\ last.pre # NoHandle /\ last.pre.stale
     /\ LiveMatches(last.proxy) = 0)
    => last.kind = NoSuchElementException

\* C9: no self-test ends in NoSuchElementException; one raised on the way
\* ends the run as an AssertionError with the same message; and with one
\* header holding no dropdown (each declared once, not excluded) the run
\* ends as an AssertionError raised by dropdown's check (with the lookup's
\* message, or none when dropdown's handle was cached and only the count
\* is off), after header's own check was made and passed.
C9_NotFoundBecomesAssertion ==
    IsTestRun =>
        /\ last.kind # NoSuchElementException
        /\ last.notfound # NoMsg =>
              (last.kind = AssertionError /\ last.msg = last.notfound)
        /\ (/\ locators["header"] = Loc(1, FALSE, None)
            /\ locators["dropdown"] = Loc(1, FALSE, None)
            /\ cnt["header"] = 1 /\ cnt["dropdown"] = 0
            /\ ~web_element["header"].stale
            /\ last.op = "test_elements" \/ last.proxy = "header")
           => (/\ last.kind = AssertionError
               /\ last.failed = "dropdown"
               /\ last.msg \in {DriverMsg("dropdown"), NoMsg}
               /\ "header" \in last.asserted)

\* C9 witness: the page's self-test ran on one header without its dropdown,
\* the header's handle cached by an earlier call.
C9_Witness ==
    /\ last.op = "test_elements" /\ last.kind = AssertionError
    /\ last.failed = "dropdown" /\ last.notfound = DriverMsg("dropdown")
    /\ cnt["header"] = 1 /\ cnt["main_search_bar"] = 1
    /\ Live("header", web_element["header"])

\* C10 (as claimed): a resolve that fails with NoSuchElementException carries
\* the proxy's name, its page and its locator.
C10_NotFoundNamesProxy ==
    (last.op = "element" /\ last.kind = NoSuchElementException)
    => last.msg = ProxyMsg(last.proxy)

\* C11 (as claimed): WebElementEx.all, and indexing through it, evaluates
\* presence exactly once; with no node matching the locator it fails with
\* NoSuchElementException and never returns an empty sequence; with k >= 1
\* matching it returns k proxies, the i-th holding the i-th match, each with
\* the receiver's name, locator and scope.
C11_AllChecksOnceThenLists ==
    last.op \in {"all", "getitem"} =>
        /\ last.evals = 1
        /\ ~(last.kind = "ok" /\ last.proxies = <<>>)
        /\ cnt[last.proxy] = 0 => last.kind = NoSuchElementException
        /\ (cnt[last.proxy] >= 1 /\ last.op = "all") =>
              /\ last.kind = "ok"
              /\ last.proxies =
                    [i \in 1..cnt[last.proxy] |->
                        Sibling(last.proxy, NodeAt(last.proxy, i))]
        /\ (cnt[last.proxy] >= last.item + 1 /\ last.op = "getitem") =>
              /\ last.kind = "ok"
              /\ last.proxies =
                    <<Sibling(last.proxy, NodeAt(last.proxy, last.item + 1))>>

\* C11 on its own ground: the same, for a proxy whose scope is the driver.
C11_TopLevelAll ==
    Scope(last.proxy) = Driver => C11_AllChecksOnceThenLists

\* C12 (as claimed): extend_url of a class URL ^P$ with extension E is
\* ^PE$: the extension is put before the trailing anchor and nothing else
\* changes.
C12_ExtensionBeforeTrailingAnchor ==
    ext # NoExtend =>
        ext.result = SubSeq(ext.url, 1, Len(ext.url) - 1)
                     \o ext.extension \o <<"$">>

\* C12 on its own ground: the same, for a P that holds no "$".
C12_NoInnerDollar ==
    (\A i \in 1..(Len(ext.url) - 1) : ext.url[i] # "$")
    => C12_ExtensionBeforeTrailingAnchor

\* The places of an event in the trace of the latest self-test.
Places(event) == {i \in DOMAIN last.trace : last.trace[i] = event}

\* C13: in a self-test, a node that names a setup hook and is entered
\* acquires the hook once and releases it once, whatever the outcome; the
\* node's own check and every check of a descendant lie between the two;
\* a node without a hook, or one never entered, acquires and releases
\* nothing.
C13_HookAroundSubtree ==
    IsTestRun =>
        \A p \in Proxies :
            IF p \in Range(last.entered) /\ locators[p].test_func # None
            THEN /\ Cardinality(Places(<<"enter", p>>)) = 1
                 /\ Cardinality(Places(<<"exit", p>>)) = 1
                 /\ \A i \in Places(<<"enter", p>>),
                       j \in Places(<<"exit", p>>) :
                       /\ i < j
                       /\ \A q \in Subtree(p) :
                             \A k \in Places(<<"check", q>>) : i < k /\ k < j
            ELSE /\ Places(<<"enter", p>>) = {}
                 /\ Places(<<"exit", p>>) = {}

\* C13 witness: a self-test of a node with a hook ended in an assertion
\* failure raised by a descendant's check, the hook acquired before that
\* check and released after it.
C13_Witness ==
    /\ last.op = "test" /\ last.kind = AssertionError
    /\ locators[last.proxy].test_func # None
    /\ last.failed \in Descendants(last.proxy)
    /\ last.trace[1] = <<"enter", last.proxy>>
    /\ last.trace[Len(last.trace)] = <<"exit", last.proxy>>
    /\ Places(<<"check", last.failed>>) # {}

\* C14 (as claimed): reading is_present, is_visible or is_clickable of a
\* proxy raises nothing and resolves nothing: a proxy without a handle is
\* still without one afterwards, whether its element is in the document or
\* not.
C14_ObtainingConditionResolvesNothing ==
    last.op \in Accessors =>
        /\ last.kind = "ok"
        /\ last.pre = NoHandle => web_element[last.proxy] = NoHandle

\* C14 on its own ground: the same, for is_present and is_clickable.
C14_LocatorConditions ==
    last.op # "is_visible" => C14_ObtainingConditionResolvesNothing

\* C15: Page.wait_for and Page.do_then_wait_for return only after an
\* evaluation of the condition was true; the settle sleep is made after
\* that evaluation (the last one of the call) and before the return; a call
\* that ends in TimeoutException has made no settle sleep.
C15_SettleAfterSuccess ==
    call.kind \in {"page.wait_for", "page.do_then_wait_for"} =>
        /\ status = "returned" =>
              polls.n >= 1 /\ polls.value /\ settled.done
        /\ settled.done => (polls.value /\ settled.after = polls.n)
        /\ status = TimeoutException => ~settled.done

\* C15 witness: Page.wait_for with a settle sleep of one second returned
\* after a false and then a true evaluation, the sleep made after those.
C15_Witness ==
    /\ call.kind = "page.wait_for" /\ status = "returned"
    /\ call.sleep_after = 1 /\ polls.n >= 2
    /\ settled.done /\ settled.after = polls.n
    /\ now >= waitStart + call.sleep_after * TicksPerSecond + 1

C17_CountIsLive ==
    last.op = "count" =>
        /\ web_element[last.proxy] = last.pre
        /\ (Scope(last.proxy) = Driver \/ cnt[Scope(last.proxy)] >= 1) =>
              (last.kind = "ok" /\ last.value = cnt[last.proxy])

\* C17 on its own ground: the same, when the parent proxy holds no stale
\* handle.
C17_CountBehindLiveScope ==
    (Scope(last.proxy) = Driver \/ ~web_element[Scope(last.proxy)].stale)
    => C17_CountIsLive

\* C18: right after Page(driver) there is exactly one proxy for every
\* declared Locator, top-level ones scoped to the driver and reachable by
\* their key on the page, nested ones scoped to their parent proxy and
\* reachable by their key on it; no proxy holds a handle and no call has
\* been made; and a proxy without a handle gets one only in a step that is
\* a call of the test code on the page.
C18_ConstructionResolvesNothing ==
    /\ {x.name : x \in NewPage} = Proxies
    /\ Cardinality(NewPage) = Cardinality(Proxies)
    /\ \A x \in NewPage :
          /\ x.scope = Scope(x.name)
          /\ x.scope = Driver => x.name \in Range(PageKeys)
          /\ x.scope # Driver => x.name \in Range(Keys(x.scope))
    /\ web_element = [p \in Proxies |-> NoHandle]
    /\ last = Idle
    /\ [][(\E p \in Proxies : web_element[p] = NoHandle
                               /\ web_element'[p] # NoHandle)
          => (last = Idle /\ last'.op # "none")]_vars

\* C18 witness: the first access to a nested proxy resolved it and its
\* parent; the other proxies still hold no handle.
C18_Witness ==
    /\ last.op = "element" /\ last.proxy = "dropdown" /\ last.kind = "ok"
    /\ last.pre = NoHandle
    /\ web_element["header"] # NoHandle /\ web_element["dropdown"] # NoHandle
    /\ web_element["fake"] = NoHandle
    /\ web_element["main_search_bar"] = NoHandle

\* C19: a call that has reached its wait leaves it, by a true evaluation or
\* by TimeoutException, however the page changes meanwhile; a wait makes at
\* most one evaluation per poll interval of its timeout and one more, and
\* with timeout 0 it has made exactly one when it ends.
C19_EveryWaitTerminates ==
    /\ [](polls.n <= call.timeout * TicksPerSecond + 1)
    /\ []((call.timeout = 0 /\ status \in {"returned", TimeoutException})
           => polls.n = 1)
    /\ (InWait ~> ~InWait)

\* C19 witness: a wait with timeout 0 ended in TimeoutException after its
\* one evaluation.
C19_Witness ==
    /\ status = TimeoutException /\ call.timeout = 0 /\ polls.n = 1
    /\ call.kind = "do_then_wait_for"

\* The proxies on the way from p up to the driver.
Ancestors(p) == IF Scope(p) = Driver THEN {} ELSE {Scope(p)}

\* The proxies whose own resolution a call on p may run: p itself where the
\* call reads p.element, the proxies p is nested in, and for a self-test
\* the nodes it descends to.
MayResolve(op, p) ==
    CASE op \in {"element", "is_visible"} -> {p} \cup Ancestors(p)
      [] op \in {"count", "bool", "all", "getitem"} -> Ancestors(p)
      [] op = "test" -> Subtree(p) \cup Ancestors(p)
      [] op = "test_elements" -> Proxies
      [] OTHER -> {}

\* C20: in every call of the test code on a proxy, a handle that is cached
\* is never replaced; a proxy that gets a handle gets the first match of
\* its own locator, and only if the call resolves that proxy (the proxy
\* itself, one it is nested in, or a node its self-test descends to), never
\* a sibling or an unrelated proxy; all and indexing leave the receiver's
\* own handle as it was and hand every returned proxy a handle of its own,
\* the i-th proxy of all the i-th match.
C20_HandlesArePrivate ==
    [][last'.op # "none" =>
          /\ \A q \in Proxies :
                web_element'[q] # web_element[q] =>
                    /\ web_element[q] = NoHandle
                    /\ web_element'[q] = NodeAt(q, 1)
                    /\ q \in MayResolve(last'.op, last'.proxy)
          /\ last'.op \in {"all", "getitem"} =>
                /\ web_element'[last'.proxy] = web_element[last'.proxy]
                /\ \A i, j \in DOMAIN last'.proxies :
                      i # j => last'.proxies[i].web_element
                               # last'.proxies[j].web_element
          /\ last'.op = "all" =>
                \A i \in DOMAIN last'.proxies :
                   last'.proxies[i].web_element = NodeAt(last'.proxy, i)
      ]_vars

\* C20 witness: all on a nested proxy without a handle returned two
\* proxies; the parent was resolved on the way, the receiver and its
\* sibling still hold no handle.
C20_Witness ==
    /\ last.op = "all" /\ last.kind = "ok" /\ Len(last.proxies) = 2
    /\ last.proxy = "dropdown" /\ last.pre = NoHandle
    /\ web_element["dropdown"] = NoHandle /\ web_element["fake"] = NoHandle
    /\ web_element["header"] = NodeAt("header", 1)

\* C21: once the body of a do_then_wait_for block (the module's, the
\* page's, or Page.get's navigation) has raised, the condition is never
\* evaluated, the clock does not move (no wait, no settle sleep) and the
\* call ends with the body's own exception, never with TimeoutException or
\* a normal return; and a call ends with that exception only if its body
\* raised it.
C21_BodyErrorSkipsTheWait ==
    /\ raised # None =>
          /\ polls.n = 0 /\ phase = "start"
          /\ ~settled.done /\ now = 0
          /\ status \in {"running", raised}
          /\ ~bodyDone
    /\ status = ActionError => raised = ActionError

\* C21 witness: the body of a page.do_then_wait_for block with a settle
\* sleep raised while the condition was already true; the call ended with
\* the body's exception.
C21_Witness ==
    /\ status = ActionError /\ call.kind = "page.do_then_wait_for"
    /\ call.sleep_after = 1 /\ Evaluate(call.cond)
    /\ polls.n = 0 /\ ~settled.done

====
